---- MODULE Spec2Model ----
(***************************************************************************)
(* A model of generate_hull_calendar.py: the text escaping (_escape), the  *)
(* date/time formatting (format_dt), the serializer loop (build_ics) and   *)
(* the sample event source (sample_events).                                *)
(*                                                                         *)
(* A Python str is a sequence of one-character strings.  A line of the     *)
(* calendar document is such a sequence too; the fixed keywords of the     *)
(* format ("BEGIN:VEVENT", "UID:", ...) are kept as single elements.       *)
(***************************************************************************)
EXTENDS Integers, Sequences, FiniteSets, TLC

VARIABLES
    pc,           \* position of the operation under way
    events,       \* build_ics: the records of the input consumed so far
    lines,        \* build_ics: the list `lines`
    contrib,      \* build_ics: history, the lines each consumed record appended
    log,          \* build_ics: the entries handed to logging, in order
    uuidCount,    \* build_ics: how many uuid4() identifiers were drawn
    nowstamp,     \* build_ics: the DTSTAMP text computed before the loop
    localOffset,  \* the machine's local UTC offset in minutes (east positive)
    document,     \* build_ics: the returned text
    text,         \* _escape: the argument
    escaped,      \* _escape: the result
    unescaped,    \* the escaped text decoded again
    dtIn,         \* format_dt: the argument
    dtOut,        \* format_dt: the result
    today,        \* sample_events: datetime.date.today()
    samples       \* sample_events: the result

vars == <<pc, events, lines, contrib, log, uuidCount, nowstamp, localOffset,
          document, text, escaped, unescaped, dtIn, dtOut, today, samples>>

buildVars == <<events, lines, contrib, log, uuidCount, nowstamp, document>>
escapeVars == <<text, escaped, unescaped>>
formatVars == <<dtIn, dtOut>>
sampleVars == <<today, samples>>

(***************************************************************************)
(* Bounds of the model.                                                    *)
(***************************************************************************)
MaxEvents == 2
MaxLen == 3

(***************************************************************************)
(* Characters and texts.                                                   *)
(***************************************************************************)
BS == "\\"
NL == "\n"
CR == "\r"

\* The alphabet of the texts handed to _escape on its own.
Alphabet == {",", ";", BS, NL, "n", "a"}

RECURSIVE SeqsUpTo(_, _)
SeqsUpTo(S, n) ==
    IF n = 0 THEN {<<>>}
    ELSE LET shorter == SeqsUpTo(S, n - 1)
         IN  shorter \cup {Append(s, c) : s \in {t \in shorter : Len(t) = n - 1}, c \in S}

Texts == SeqsUpTo(Alphabet, MaxLen)

\* str.replace(old, new) for a one-character `old`.
RECURSIVE Replace(_, _, _)
Replace(s, old, new) ==
    IF s = <<>> THEN <<>>
    ELSE (IF Head(s) = old THEN new ELSE <<Head(s)>>) \o Replace(Tail(s), old, new)

\* A plausible slip: the backslash is escaped last, after the escapes were inserted.
EscapeBackslashLast(s) ==
    IF s = <<>> THEN <<>>
    ELSE Replace(Replace(Replace(Replace(s, NL, <<BS, "n">>), ",", <<BS, ",">>),
                         ";", <<BS, ";">>), BS, <<BS, BS>>)

\* A plausible slip: the newline replacement is left out.
EscapeNoNewline(s) ==
    IF s = <<>> THEN <<>>
    ELSE Replace(Replace(Replace(s, BS, <<BS, BS>>), ",", <<BS, ",">>), ";", <<BS, ";">>)

\* _escape(text) for a str argument.
Escape(s) ==
    IF s = <<>> THEN <<>>
    ELSE Replace(Replace(Replace(Replace(s, BS, <<BS, BS>>), NL, <<BS, "n">>),
                         ",", <<BS, ",">>), ";", <<BS, ";">>)

\* The inverse rule: a left-to-right scan that decodes each backslash pair.
RECURSIVE Unescape(_)
Unescape(s) ==
    IF s = <<>> THEN <<>>
    ELSE IF Head(s) = BS /\ Len(s) >= 2
         THEN <<(IF s[2] = "n" THEN NL ELSE s[2])>> \o Unescape(Tail(Tail(s)))
         ELSE <<Head(s)>> \o Unescape(Tail(s))

(***************************************************************************)
(* _escape on its own: the argument is drawn in Init, DoEscape applies     *)
(* _escape, DoUnescape decodes the result.                                 *)
(***************************************************************************)
Idle == <<>>

InitEscape ==
    /\ pc = "escape"
    /\ text \in Texts
    /\ escaped = Idle /\ unescaped = Idle
    /\ events = <<>> /\ lines = <<>> /\ contrib = <<>> /\ log = <<>>
    /\ uuidCount = 0 /\ nowstamp = Idle /\ localOffset = 0 /\ document = Idle
    /\ dtIn = Idle /\ dtOut = Idle /\ today = Idle /\ samples = Idle

DoEscape ==
    /\ pc = "escape"
    /\ escaped' = Escape(text)
    /\ pc' = "escaped"
    /\ UNCHANGED <<text, unescaped, buildVars, localOffset, formatVars, sampleVars>>

DoUnescape ==
    /\ pc = "escaped"
    /\ unescaped' = Unescape(escaped)
    /\ pc' = "unescaped"
    /\ UNCHANGED <<text, escaped, buildVars, localOffset, formatVars, sampleVars>>

NextEscape == DoEscape \/ DoUnescape

SpecEscape == InitEscape /\ [][NextEscape]_vars

(***************************************************************************)
(* Dates and times.  A value handed to format_dt is a record               *)
(*   [kind, y, m, d, H, M, S, aware, off]                                  *)
(* kind "date" is a datetime.date, "datetime" a datetime.datetime (aware   *)
(* with UTC offset `off` minutes, or naive), "str" a string where a date   *)
(* was expected, "absent" a missing key.                                   *)
(***************************************************************************)
DateVal(y, m, d) ==
    [kind |-> "date", y |-> y, m |-> m, d |-> d, H |-> 0, M |-> 0, S |-> 0,
     aware |-> FALSE, off |-> 0]

Naive(y, m, d, H, M, S) ==
    [kind |-> "datetime", y |-> y, m |-> m, d |-> d, H |-> H, M |-> M, S |-> S,
     aware |-> FALSE, off |-> 0]

Aware(y, m, d, H, M, S, off) ==
    [kind |-> "datetime", y |-> y, m |-> m, d |-> d, H |-> H, M |-> M, S |-> S,
     aware |-> TRUE, off |-> off]

NotADate ==
    [kind |-> "str", y |-> 0, m |-> 0, d |-> 0, H |-> 0, M |-> 0, S |-> 0,
     aware |-> FALSE, off |-> 0]

NoValue ==
    [kind |-> "absent", y |-> 0, m |-> 0, d |-> 0, H |-> 0, M |-> 0, S |-> 0,
     aware |-> FALSE, off |-> 0]

IsLeap(y) == (y % 4 = 0 /\ y % 100 # 0) \/ y % 400 = 0

DaysInMonth(y, m) ==
    IF m = 2 THEN (IF IsLeap(y) THEN 29 ELSE 28)
    ELSE IF m \in {4, 6, 9, 11} THEN 30 ELSE 31

ValidDate(y, m, d) == m \in 1..12 /\ d >= 1 /\ d <= DaysInMonth(y, m)

\* The day after / before a value, its time of day kept.
NextDay(v) ==
    IF v.d < DaysInMonth(v.y, v.m) THEN [v EXCEPT !.d = v.d + 1]
    ELSE IF v.m < 12 THEN [v EXCEPT !.m = v.m + 1, !.d = 1]
    ELSE [v EXCEPT !.y = v.y + 1, !.m = 1, !.d = 1]

PrevDay(v) ==
    IF v.d > 1 THEN [v EXCEPT !.d = v.d - 1]
    ELSE IF v.m > 1 THEN [v EXCEPT !.m = v.m - 1, !.d = DaysInMonth(v.y, v.m - 1)]
    ELSE [v EXCEPT !.y = v.y - 1, !.m = 12, !.d = 31]

\* date + timedelta(days=n), n >= 0.
RECURSIVE AddDays(_, _)
AddDays(v, n) == IF n = 0 THEN v ELSE AddDays(NextDay(v), n - 1)

\* The wall-clock time `off` minutes east of UTC as the UTC date and time
\* (|off| is below one day, so the date moves by at most one day).
ToUtc(v, off) ==
    LET mins == v.H * 60 + v.M - off
        day  == IF mins < 0 THEN PrevDay(v) ELSE IF mins >= 1440 THEN NextDay(v) ELSE v
        m2   == (mins + 1440) % 1440
    IN  [day EXCEPT !.H = m2 \div 60, !.M = m2 % 60, !.aware = TRUE, !.off = 0]

\* dt.astimezone(datetime.timezone.utc): an aware value is converted by its own
\* offset; a naive one is taken to be the machine's local time.
AsTimezoneUtc(v, local) == ToUtc(v, IF v.aware THEN v.off ELSE local)

DigitSeq == <<"0", "1", "2", "3", "4", "5", "6", "7", "8", "9">>
DigitChars == {DigitSeq[i] : i \in 1..10}
DigitChar(n) == DigitSeq[n + 1]

\* A non-negative number in decimal without padding (%Y of the C library).
RECURSIVE Digits(_)
Digits(n) == IF n < 10 THEN <<DigitChar(n)>> ELSE Digits(n \div 10) \o <<DigitChar(n % 10)>>

Pad2(n) == <<DigitChar(n \div 10), DigitChar(n % 10)>>

\* strftime("%Y%m%d")
StrftimeDate(v) == Digits(v.y) \o Pad2(v.m) \o Pad2(v.d)

\* strftime("%Y%m%dT%H%M%SZ")
StrftimeStamp(v) ==
    StrftimeDate(v) \o <<"T">> \o Pad2(v.H) \o Pad2(v.M) \o Pad2(v.S) \o <<"Z">>

Formatted(s, isDate) == [raised |-> FALSE, str |-> s, is_date |-> isDate]
FormatRaised == [raised |-> TRUE, str |-> <<>>, is_date |-> FALSE]

\* A plausible slip: the naive branch keeps the value as it is (the `else dt`
\* of line 60), as if it were UTC already.
FormatDtNaiveAsUtc(dt, local) ==
    IF dt.kind = "date" THEN Formatted(StrftimeDate(dt), TRUE)
    ELSE IF dt.kind # "datetime" THEN FormatRaised
    ELSE IF ~dt.aware THEN Formatted(StrftimeStamp(dt), FALSE)
    ELSE Formatted(StrftimeStamp(AsTimezoneUtc(dt, local)), FALSE)

\* A plausible slip: the date-only branch loses its flag.
FormatDtNoDateFlag(dt, local) ==
    IF dt.kind = "date" THEN Formatted(StrftimeDate(dt), FALSE)
    ELSE IF dt.kind # "datetime" THEN FormatRaised
    ELSE Formatted(StrftimeStamp(AsTimezoneUtc(dt, local)), FALSE)

\* format_dt(dt) on a machine whose local UTC offset is `local`.  A value that is
\* neither a date nor a datetime has no tzinfo attribute: AttributeError.
FormatDt(dt, local) ==
    IF dt.kind = "date" THEN Formatted(StrftimeDate(dt), TRUE)
    ELSE IF dt.kind # "datetime" THEN FormatRaised
    ELSE IF ~dt.aware THEN Formatted(StrftimeStamp(AsTimezoneUtc(dt, local)), FALSE)
    ELSE Formatted(StrftimeStamp(AsTimezoneUtc(dt, local)), FALSE)

(***************************************************************************)
(* format_dt on its own: the argument and the machine's timezone are drawn *)
(* in Init, DoFormat applies format_dt.                                    *)
(***************************************************************************)
Years == {2023, 2024}
Months == {1, 2, 3, 12}
Days == {1, 28, 29, 31}
Hours == {0, 12, 23}
Minutes == {0, 30}
Seconds == {0, 59}
\* UTC offsets in minutes: New York (winter), UTC, London (summer), India.
Offsets == {-300, 0, 60, 330}

Dates ==
    {DateVal(t[1], t[2], t[3]) :
        t \in {u \in Years \X Months \X Days : ValidDate(u[1], u[2], u[3])}}

NaiveTimes ==
    {Naive(v.y, v.m, v.d, H, M, S) : v \in Dates, H \in Hours, M \in Minutes, S \in Seconds}

AwareTimes == {[v EXCEPT !.aware = TRUE, !.off = o] : v \in NaiveTimes, o \in Offsets}

DtInputs == Dates \cup NaiveTimes \cup AwareTimes \cup {NotADate}

InitFormat ==
    /\ pc = "format"
    /\ dtIn \in DtInputs
    /\ localOffset \in Offsets
    /\ dtOut = Idle
    /\ events = <<>> /\ lines = <<>> /\ contrib = <<>> /\ log = <<>>
    /\ uuidCount = 0 /\ nowstamp = Idle /\ document = Idle
    /\ text = Idle /\ escaped = Idle /\ unescaped = Idle
    /\ today = Idle /\ samples = Idle

DoFormat ==
    /\ pc = "format"
    /\ dtOut' = FormatDt(dtIn, localOffset)
    /\ pc' = "formatted"
    /\ UNCHANGED <<dtIn, localOffset, buildVars, escapeVars, sampleVars>>

NextFormat == DoFormat

SpecFormat == InitFormat /\ [][NextFormat]_vars

(***************************************************************************)
(* Event records.  A value of a text field is [kind, s]: "absent" (no such *)
(* key), "str" (the text s), "nonstr" (a truthy value that is no string,   *)
(* such as 5) or "none" (None).  A record is a mapping of such fields, or  *)
(* something that is no mapping at all.                                    *)
(***************************************************************************)
Absent == [kind |-> "absent", s |-> <<>>]
Str(s) == [kind |-> "str", s |-> s]
NonStr == [kind |-> "nonstr", s |-> <<>>]
None == [kind |-> "none", s |-> <<>>]

Ev(uid, summary, location, description, start, end) ==
    [mapping |-> TRUE, uid |-> uid, summary |-> summary, location |-> location,
     description |-> description, start |-> start, end |-> end]

NotAMapping ==
    [mapping |-> FALSE, uid |-> Absent, summary |-> Absent, location |-> Absent,
     description |-> Absent, start |-> NoValue, end |-> NoValue]

(***************************************************************************)
(* sample_events                                                           *)
(***************************************************************************)
Min(a, b) == IF a < b THEN a ELSE b

\* The day-of-month clamp of the first sample record (line 29).
ClampDay == 28

\* A plausible slip: the clamp is the longest month's length.
SampleDayTo31(day) == Min(day + 10, 31)

\* min(now.day+10, 28)
SampleDay(day) == Min(day + 10, ClampDay)

\* sample_events() when datetime.date.today() is `now`.  datetime.datetime(...)
\* raises ValueError for a day the month does not have.
SampleEvents(now) ==
    LET day == SampleDay(now.d)
    IN  IF ~ValidDate(now.y, now.m, day)
        THEN [raised |-> TRUE, events |-> <<>>]
        ELSE [raised |-> FALSE,
              events |-> <<
                Ev(Absent, Str(<<"Jimmy Carr: Laughs Funny">>),
                   Str(<<"Connexin Live", ",", " Hull">>),
                   Str(<<"Connexin Live show - check tickets.">>),
                   Naive(now.y, now.m, day, 19, 30, 0), NoValue),
                Ev(Absent, Str(<<"Wicked - Opening Weekend (sample)">>),
                   Str(<<"Vue Hull Princes Quay">>),
                   Str(<<"Cinema opening (sample entry)">>),
                   AddDays(now, 30), NoValue),
                Ev(Absent, Str(<<"Dune: Part Two - Sample">>),
                   Str(<<"Odeon Luxe Hull">>),
                   Str(<<"Sample cinema entry">>),
                   AddDays(now, 15), NoValue) >>]

SampleYears == {2023, 2024}

Todays ==
    {DateVal(t[1], t[2], t[3]) :
        t \in {u \in SampleYears \X (1..12) \X (1..31) : ValidDate(u[1], u[2], u[3])}}

InitSample ==
    /\ pc = "sample"
    /\ today \in Todays
    /\ samples = Idle
    /\ events = <<>> /\ lines = <<>> /\ contrib = <<>> /\ log = <<>>
    /\ uuidCount = 0 /\ nowstamp = Idle /\ localOffset = 0 /\ document = Idle
    /\ text = Idle /\ escaped = Idle /\ unescaped = Idle
    /\ dtIn = Idle /\ dtOut = Idle

DoSample ==
    /\ pc = "sample"
    /\ samples' = SampleEvents(today)
    /\ pc' = "sampled"
    /\ UNCHANGED <<today, localOffset, buildVars, escapeVars, formatVars>>

NextSample == DoSample

SpecSample == InitSample /\ [][NextSample]_vars

(***************************************************************************)
(* build_ics                                                               *)
(***************************************************************************)
Header ==
    << <<"BEGIN:VCALENDAR">>, <<"VERSION:2.0">>, <<"CALSCALE:GREGORIAN">>,
       <<"METHOD:PUBLISH">>, <<"PRODID:-//Hull Events & Cinema//EN">> >>

Footer == <<"END:VCALENDAR">>

CRLF == <<CR, NL>>

NoTitle == <<"N", "o", " ", "t", "i", "t", "l", "e">>

\* str(uuid.uuid4()), the n-th identifier drawn in the run: the identifiers drawn
\* differ from each other and from the identifiers the records supply.
Uuid4(n) == <<"uuid4-">> \o Digits(n)

\* _escape(ev.get(key, default)): None and "" give "", a truthy value that is no
\* string has no replace(): AttributeError.
EscapeField(f, default) ==
    CASE f.kind = "absent" -> [raised |-> FALSE, s |-> Escape(default)]
      [] f.kind = "str"    -> [raised |-> FALSE, s |-> Escape(f.s)]
      [] f.kind = "none"   -> [raised |-> FALSE, s |-> <<>>]
      [] OTHER             -> [raised |-> TRUE, s |-> <<>>]

Warning(k) == [level |-> "WARNING", msg |-> "Skipping event without start", rec |-> k]
Error(k) == [level |-> "ERROR", msg |-> "Failed writing event", rec |-> k]

Outcome(esc, out, logged, drew) ==
    [escapes |-> esc, out |-> out, logged |-> logged, drew |-> drew]

\* One pass of the loop body (lines 75-106) for record ev, the k-th of the input,
\* with n identifiers drawn so far: whether an exception leaves build_ics, the
\* lines appended, the log entries made, the identifiers drawn.
LoopBody(ev, k, stamp, local, n) ==
    IF ~ev.mapping
    THEN \* ev.get raises inside the try, and again inside the handler (line 106)
         Outcome(TRUE, <<>>, <<>>, 0)
    ELSE
    LET hasUid      == ev.uid.kind = "str" /\ ev.uid.s # <<>>
        uid         == IF hasUid THEN ev.uid.s ELSE Uuid4(n + 1)
        drew        == IF hasUid THEN 0 ELSE 1
        summary     == EscapeField(ev.summary, NoTitle)
        location    == EscapeField(ev.location, <<>>)
        description == EscapeField(ev.description, <<>>)
        startF      == FormatDt(ev.start, local)
        endF        == FormatDt(ev.end, local)
        head        == << <<"BEGIN:VEVENT">>,
                          <<"UID:">> \o uid,
                          <<"DTSTAMP:">> \o stamp,
                          (IF startF.is_date THEN <<"DTSTART;VALUE=DATE:">>
                                             ELSE <<"DTSTART:">>) \o startF.str >>
        endLine     == IF ev.end.kind = "absent" THEN <<>>
                       ELSE << (IF endF.is_date THEN <<"DTEND;VALUE=DATE:">>
                                                ELSE <<"DTEND:">>) \o endF.str >>
        rest        == << <<"SUMMARY:">> \o summary.s >>
                       \o (IF location.s # <<>> THEN << <<"LOCATION:">> \o location.s >>
                                                ELSE <<>>)
                       \o (IF description.s # <<>>
                           THEN << <<"DESCRIPTION:">> \o description.s >> ELSE <<>>)
                       \o << <<"END:VEVENT">> >>
    IN  IF summary.raised \/ location.raised \/ description.raised
        THEN Outcome(FALSE, <<>>, <<Error(k)>>, drew)
        ELSE IF ev.start.kind = "absent"
        THEN Outcome(FALSE, <<>>, <<Warning(k)>>, drew)
        ELSE IF startF.raised
        THEN Outcome(FALSE, <<>>, <<Error(k)>>, drew)
        ELSE IF ev.end.kind # "absent" /\ endF.raised
        THEN Outcome(FALSE, head, <<Error(k)>>, drew)
        ELSE Outcome(FALSE, head \o endLine \o rest, <<>>, drew)

\* A plausible slip: the lines are joined with a bare line feed.
RECURSIVE JoinLf(_)
JoinLf(ls) ==
    IF ls = <<>> THEN <<>>
    ELSE IF Len(ls) = 1 THEN ls[1]
    ELSE ls[1] \o <<NL>> \o JoinLf(Tail(ls))

\* "\r\n".join(lines)
RECURSIVE Join(_)
Join(ls) ==
    IF ls = <<>> THEN <<>>
    ELSE IF Len(ls) = 1 THEN ls[1]
    ELSE ls[1] \o CRLF \o Join(Tail(ls))

(***************************************************************************)
(* The records handed to build_ics.                                        *)
(***************************************************************************)
\* The summary of the concrete scenario: A, B; C <newline> D
ScenarioSummary == <<"A", ",", " ", "B", ";", " ", "C", NL, "D">>

ADate == DateVal(2024, 3, 1)
ANaive == Naive(2024, 3, 1, 0, 30, 0)
AnAware == Aware(2024, 12, 31, 23, 30, 59, -300)

UidValues == {Absent, Str(<<"u1">>)}
SummaryValues == {Absent, Str(ScenarioSummary), NonStr}
LocationValues == {Absent, Str(<<"H", CR, NL, "U">>)}
DescriptionValues == {Absent, Str(<<"d", BS, "n">>)}
StartValues == {ADate, NoValue, ANaive, AnAware, NotADate}
EndValues == {NoValue, ADate, AnAware, NotADate}

Fields == {"uid", "summary", "location", "description", "start", "end"}

BaseRecord == Ev(Absent, Absent, Absent, Absent, ADate, NoValue)

\* The mappings that differ from BaseRecord in at most two fields, and a value
\* that is no mapping.
Records ==
    {r \in [mapping : {TRUE}, uid : UidValues, summary : SummaryValues,
            location : LocationValues, description : DescriptionValues,
            start : StartValues, end : EndValues] :
        \E f, g \in Fields : \A h \in Fields \ {f, g} : r[h] = BaseRecord[h]}
    \cup {NotAMapping}

\* datetime.datetime.utcnow() at the call.
NowValues == {Naive(2024, 2, 29, 23, 59, 59)}
LocalOffsets == {60}

\* The state at the loop's entry (lines 66-73).
Init ==
    /\ pc = "loop"
    /\ events = <<>>
    /\ lines = Header
    /\ contrib = <<>>
    /\ log = <<>>
    /\ uuidCount = 0
    /\ nowstamp \in {StrftimeStamp(v) : v \in NowValues}
    /\ localOffset \in LocalOffsets
    /\ document = Idle
    /\ text = Idle /\ escaped = Idle /\ unescaped = Idle
    /\ dtIn = Idle /\ dtOut = Idle /\ today = Idle /\ samples = Idle

\* The loop takes the next record of the input.
ProcessEvent ==
    /\ pc = "loop"
    /\ Len(events) < MaxEvents
    /\ \E ev \in Records :
         LET r == LoopBody(ev, Len(events) + 1, nowstamp, localOffset, uuidCount)
         IN  /\ events' = Append(events, ev)
             /\ lines' = lines \o r.out
             /\ contrib' = Append(contrib, r.out)
             /\ log' = log \o r.logged
             /\ uuidCount' = uuidCount + r.drew
             /\ pc' = IF r.escapes THEN "raised" ELSE "loop"
    /\ UNCHANGED <<nowstamp, localOffset, document, escapeVars, formatVars, sampleVars>>

\* The input is exhausted: the footer is appended and the text returned
\* (lines 107-108).
Finish ==
    /\ pc = "loop"
    /\ lines' = Append(lines, Footer)
    /\ document' = Join(lines')
    /\ pc' = "done"
    /\ UNCHANGED <<events, contrib, log, uuidCount, nowstamp, localOffset,
                   escapeVars, formatVars, sampleVars>>

Next == ProcessEvent \/ Finish

Spec == Init /\ [][Next]_vars

(***************************************************************************)
(* Helpers of the properties.                                              *)
(***************************************************************************)
Consumed == 1..Len(events)

\* The log entries made while record k was processed.
LogOf(k) == SelectSeq(log, LAMBDA e : e.rec = k)

TagOf(l) == l[1]

RECURSIVE CountLines(_, _)
CountLines(ls, l) ==
    IF ls = <<>> THEN 0
    ELSE (IF Head(ls) = l THEN 1 ELSE 0) + CountLines(Tail(ls), l)

\* A text cut into its lines at every CR LF.
RECURSIVE SplitCRLF(_)
SplitCRLF(s) ==
    IF \E i \in 1..(Len(s) - 1) : s[i] = CR /\ s[i + 1] = NL
    THEN LET i == CHOOSE j \in 1..(Len(s) - 1) :
                    /\ s[j] = CR /\ s[j + 1] = NL
                    /\ \A h \in 1..(j - 1) : ~(s[h] = CR /\ s[h + 1] = NL)
         IN  <<SubSeq(s, 1, i - 1)>> \o SplitCRLF(SubSeq(s, i + 2, Len(s)))
    ELSE <<s>>

DigitVal(c) == CHOOSE n \in 0..9 : DigitChar(n) = c

RECURSIVE Number(_)
Number(ds) ==
    IF ds = <<>> THEN 0 ELSE 10 * Number(SubSeq(ds, 1, Len(ds) - 1)) + DigitVal(ds[Len(ds)])

AllDigits(ds) == \A i \in 1..Len(ds) : ds[i] \in DigitChars

\* The proleptic Gregorian day number of a date (day 1 is 0001-01-01).
Ordinal(y, m, d) ==
    (y - 1) * 365 + (y - 1) \div 4 - (y - 1) \div 100 + (y - 1) \div 400
    + <<0, 31, 59, 90, 120, 151, 181, 212, 243, 273, 304, 334>>[m]
    + (IF m > 2 /\ IsLeap(y) THEN 1 ELSE 0)
    + d

\* The instant of a wall-clock value, in minutes from a fixed origin.
MinuteOf(v) == Ordinal(v.y, v.m, v.d) * 1440 + v.H * 60 + v.M

\* An 8-digit stamp YYYYMMDD, read back.
IsDateStamp(s) == Len(s) = 8 /\ AllDigits(s)
DateOfStamp(s) ==
    [y |-> Number(SubSeq(s, 1, 4)), m |-> Number(SubSeq(s, 5, 6)),
     d |-> Number(SubSeq(s, 7, 8))]

\* A stamp YYYYMMDDTHHMMSSZ, read back.
IsUtcStamp(s) ==
    /\ Len(s) = 16
    /\ AllDigits(SubSeq(s, 1, 8)) /\ s[9] = "T"
    /\ AllDigits(SubSeq(s, 10, 15)) /\ s[16] = "Z"
TimeOfStamp(s) ==
    [y |-> Number(SubSeq(s, 1, 4)), m |-> Number(SubSeq(s, 5, 6)),
     d |-> Number(SubSeq(s, 7, 8)), H |-> Number(SubSeq(s, 10, 11)),
     M |-> Number(SubSeq(s, 12, 13)), S |-> Number(SubSeq(s, 14, 15))]

\* Record k went through the loop body to its end.
Emitted(k) == contrib[k] # <<>> /\ contrib[k][Len(contrib[k])] = <<"END:VEVENT">>

\* The lines of record k that carry the given tags.
LinesTagged(k, tags) ==
    {contrib[k][i] : i \in {j \in 1..Len(contrib[k]) : TagOf(contrib[k][j]) \in tags}}

(***************************************************************************)
(* C1: build_ics never lets an exception escape because of one bad record: *)
(* whatever a record looks like, the fault is logged and the loop goes on. *)
(* Stated as: no run ends with an exception leaving build_ics, and every   *)
(* consumed record either was emitted whole or left a log entry.           *)
(***************************************************************************)
C1_FaultsContained ==
    /\ pc # "raised"
    /\ \A k \in Consumed : Emitted(k) \/ LogOf(k) # <<>>

(***************************************************************************)
(* C2: every record with no start contributes no line and causes exactly   *)
(* one logged warning and no other log entry; and once the document is     *)
(* returned, the number of event blocks is the number of records minus the *)
(* number of dropped (logged) records.                                     *)
(***************************************************************************)
C2_NoStartOneWarning ==
    /\ \A k \in Consumed :
         (events[k].mapping /\ events[k].start.kind = "absent")
            => (contrib[k] = <<>> /\ LogOf(k) = <<Warning(k)>>)
    /\ pc = "done" =>
         CountLines(lines, <<"BEGIN:VEVENT">>)
            = Len(events) - Cardinality({k \in Consumed : LogOf(k) # <<>>})

(***************************************************************************)
(* C3: the UID values of the emitted event blocks of a document are       *)
(* pairwise distinct, whether the records omit uid or supply their own.    *)
(***************************************************************************)
C3_UidsDistinct ==
    \A i, j \in Consumed :
        (i # j /\ Emitted(i) /\ Emitted(j))
            => LinesTagged(i, {"UID:"}) \cap LinesTagged(j, {"UID:"}) = {}

DtLineAsClaimed(l, v, dateTag, plainTag) ==
    LET stamp == Tail(l)
    IN  IF v.kind = "date"
        THEN /\ TagOf(l) = dateTag
             /\ IsDateStamp(stamp)
             /\ DateOfStamp(stamp) = [y |-> v.y, m |-> v.m, d |-> v.d]
        ELSE /\ TagOf(l) = plainTag
             /\ IsUtcStamp(stamp)

C5_DateTagPerField ==
    \A k \in Consumed :
        /\ contrib[k] # <<>> =>
             /\ Len(contrib[k]) >= 4
             /\ DtLineAsClaimed(contrib[k][4], events[k].start,
                                "DTSTART;VALUE=DATE:", "DTSTART:")
        /\ (Emitted(k) /\ events[k].end.kind # "absent") =>
             DtLineAsClaimed(contrib[k][5], events[k].end,
                             "DTEND;VALUE=DATE:", "DTEND:")

\* An emitted record with a date-only start and a timestamped end, and one with
\* a timestamped start and a date-only end.
C5_Witness ==
    /\ \E k \in Consumed :
         Emitted(k) /\ events[k].start.kind = "date" /\ events[k].end.kind = "datetime"
    /\ \E k \in Consumed :
         Emitted(k) /\ events[k].start.kind = "datetime" /\ events[k].end.kind = "date"

(***************************************************************************)
(* C8 as stated: the summary A, B; C <newline> D is emitted as             *)
(* A\, B\; C\\nD with two backslashes before the n.                        *)
(***************************************************************************)
C8_TwoBackslashes ==
    \A k \in Consumed :
        (Emitted(k) /\ events[k].summary = Str(ScenarioSummary)) =>
            LinesTagged(k, {"SUMMARY:"}) =
                {<<"SUMMARY:", "A", BS, ",", " ", "B", BS, ";", " ", "C", BS, BS, "n", "D">>}

(***************************************************************************)
(* C8 as amended: the summary A, B; C <newline> D is emitted as            *)
(* A\, B\; C\nD: backslash comma after A, backslash semicolon after B, and *)
(* one backslash followed by the letter n between C and D.                 *)
(***************************************************************************)
C8_OneBackslash ==
    \A k \in Consumed :
        (Emitted(k) /\ events[k].summary = Str(ScenarioSummary)) =>
            LinesTagged(k, {"SUMMARY:"}) =
                {<<"SUMMARY:", "A", BS, ",", " ", "B", BS, ";", " ", "C", BS, "n", "D">>}

C8_Witness ==
    \E k \in Consumed : Emitted(k) /\ events[k].summary = Str(ScenarioSummary)

(***************************************************************************)
(* C9: the lines between header and footer are complete event blocks of    *)
(* the form BEGIN:VEVENT, UID, DTSTAMP, DTSTART, DTEND only if end is      *)
(* present, SUMMARY, LOCATION only if non-empty, DESCRIPTION only if       *)
(* non-empty, END:VEVENT, with the same DTSTAMP in every block; a dropped  *)
(* record, one that raises part-way included, contributes no line.         *)
(***************************************************************************)
BlockAsClaimed(b, ev) ==
    LET tags == [i \in 1..Len(b) |-> TagOf(b[i])]
        opt(c, t) == IF c THEN <<t>> ELSE <<>>
    IN  /\ \E st \in {"DTSTART:", "DTSTART;VALUE=DATE:"}, en \in {"DTEND:", "DTEND;VALUE=DATE:"} :
              tags = <<"BEGIN:VEVENT", "UID:", "DTSTAMP:", st>>
                     \o opt(ev.end.kind # "absent", en)
                     \o <<"SUMMARY:">>
                     \o opt(ev.location.kind = "str" /\ ev.location.s # <<>>, "LOCATION:")
                     \o opt(ev.description.kind = "str" /\ ev.description.s # <<>>,
                            "DESCRIPTION:")
                     \o <<"END:VEVENT">>
        /\ b[3] = <<"DTSTAMP:">> \o nowstamp

C9_CompleteBlocks ==
    \A k \in Consumed :
        /\ LogOf(k) # <<>> => contrib[k] = <<>>
        /\ contrib[k] # <<>> => BlockAsClaimed(contrib[k], events[k])

(***************************************************************************)
(* C6 as stated: a naive timestamp is taken to be UTC already: for every   *)
(* local timezone the stamp is the value's own year, month, day, hour,     *)
(* minute and second followed by Z; an aware timestamp is emitted as its   *)
(* instant converted to UTC.                                               *)
(***************************************************************************)
AwareAsInstant ==
    (pc = "formatted" /\ dtIn.kind = "datetime" /\ dtIn.aware) =>
        /\ ~dtOut.raised /\ ~dtOut.is_date /\ IsUtcStamp(dtOut.str)
        /\ MinuteOf(TimeOfStamp(dtOut.str)) = MinuteOf(dtIn) - dtIn.off
        /\ TimeOfStamp(dtOut.str).S = dtIn.S

C6_NaiveIsUtc ==
    /\ (pc = "formatted" /\ dtIn.kind = "datetime" /\ ~dtIn.aware) =>
          /\ ~dtOut.raised /\ ~dtOut.is_date /\ IsUtcStamp(dtOut.str)
          /\ TimeOfStamp(dtOut.str) =
                [y |-> dtIn.y, m |-> dtIn.m, d |-> dtIn.d,
                 H |-> dtIn.H, M |-> dtIn.M, S |-> dtIn.S]
    /\ AwareAsInstant

(***************************************************************************)
(* C6 as amended: a naive timestamp is taken to be the machine's local     *)
(* time and converted to UTC: the stamp is the instant that lies the local *)
(* UTC offset before the value's own fields (the same fields only where    *)
(* that offset is zero), followed by Z; an aware timestamp is emitted as   *)
(* its instant converted to UTC.                                           *)
(***************************************************************************)
C6_NaiveIsLocal ==
    /\ (pc = "formatted" /\ dtIn.kind = "datetime" /\ ~dtIn.aware) =>
          /\ ~dtOut.raised /\ ~dtOut.is_date /\ IsUtcStamp(dtOut.str)
          /\ MinuteOf(TimeOfStamp(dtOut.str)) = MinuteOf(dtIn) - localOffset
          /\ TimeOfStamp(dtOut.str).S = dtIn.S
    /\ AwareAsInstant

\* A naive value formatted on a machine east of UTC, early enough in the day
\* that the stamp falls on the day before.
C6_Witness ==
    /\ pc = "formatted" /\ dtIn.kind = "datetime" /\ ~dtIn.aware
    /\ localOffset > 0
    /\ TimeOfStamp(dtOut.str).d # dtIn.d

(***************************************************************************)
(* C7: _escape replaces each backslash by two backslashes, each newline by *)
(* backslash-n, each comma by backslash-comma and each semicolon by        *)
(* backslash-semicolon, and the inverse left-to-right decoding of the      *)
(* result gives the original text back.                                    *)
(***************************************************************************)
EscapedChar(c) ==
    CASE c = BS  -> <<BS, BS>>
      [] c = NL  -> <<BS, "n">>
      [] c = "," -> <<BS, ",">>
      [] c = ";" -> <<BS, ";">>
      [] OTHER   -> <<c>>

RECURSIVE CharByChar(_)
CharByChar(s) == IF s = <<>> THEN <<>> ELSE EscapedChar(Head(s)) \o CharByChar(Tail(s))

C7_EscapeRoundTrip ==
    /\ pc \in {"escaped", "unescaped"} => escaped = CharByChar(text)
    /\ pc = "unescaped" => unescaped = text

\* A text that already holds a backslash followed by n, escaped and decoded.
C7_Witness ==
    /\ pc = "unescaped"
    /\ \E i \in 1..(Len(text) - 1) : text[i] = BS /\ text[i + 1] = "n"
    /\ \E i \in 1..Len(text) : text[i] = NL

(***************************************************************************)
(* C10 as stated: for every current date sample_events returns exactly     *)
(* three records without raising, and the start of each falls on a date    *)
(* not earlier than the current date; the first record's start, day        *)
(* min(day+10, 28) of the current month at 19:30, is never in the past.    *)
(***************************************************************************)
DayOf(v) == Ordinal(v.y, v.m, v.d)

ThreeSamples == ~samples.raised /\ Len(samples.events) = 3

C10_NeverInThePast ==
    pc = "sampled" =>
        /\ ThreeSamples
        /\ \A i \in 1..3 : DayOf(samples.events[i].start) >= DayOf(today)

(***************************************************************************)
(* C10 as amended: for every current date sample_events returns exactly    *)
(* three records without raising; the second and third start 30 and 15     *)
(* days after the current date; the first starts on day min(day+10, 28) of *)
(* the current year and month at 19:30, which is not earlier than the      *)
(* current date exactly when the current day-of-month is at most 28.       *)
(***************************************************************************)
C10_ClampedSample ==
    pc = "sampled" =>
        /\ ThreeSamples
        /\ samples.events[1].start =
              Naive(today.y, today.m, Min(today.d + 10, 28), 19, 30, 0)
        /\ samples.events[2].start.kind = "date"
        /\ DayOf(samples.events[2].start) = DayOf(today) + 30
        /\ samples.events[3].start.kind = "date"
        /\ DayOf(samples.events[3].start) = DayOf(today) + 15
        /\ (DayOf(samples.events[1].start) >= DayOf(today)) <=> (today.d <= 28)

\* The last day of a 31-day month: the first sample lies three days back.
C10_Witness ==
    /\ pc = "sampled"
    /\ today.d = 31
    /\ DayOf(samples.events[1].start) = DayOf(today) - 3

====
